---- MODULE Spec2Model ----
(***************************************************************************)
(* MetaNewsX: the heuristic brief pipeline of src/src/metanewsx/cli.py.    *)
(*                                                                         *)
(* A text is a sequence of one-character strings; a sentence is a text; a  *)
(* sentence list is a sequence of texts.  The canned messages that the     *)
(* code never inspects are TLA+ strings; the headline, which is either a   *)
(* literal or a sentence, is a sequence of characters.                     *)
(*                                                                         *)
(* Spec   : analyze(text) applied to a text drawn from Texts.              *)
(* SpecFn : each pure function applied directly to a sentence list drawn   *)
(*          from SentenceLists.                                            *)
(***************************************************************************)
EXTENDS Integers, Sequences, FiniteSets, TLC

VARIABLES text, sentences, claims, examined, headline, confidence,
          watch_items, flags, pc

vars == <<text, sentences, claims, examined, headline, confidence,
          watch_items, flags, pc>>

----------------------------------------------------------------------------
(* Bounds of the model. *)

\* longest text enumerated character by character
MaxTextLen == 5

\* longest sentence list enumerated over Pool for the functions
MaxSentences == 7

\* most Pool sentences joined into one text
MaxTextSentences == 5

----------------------------------------------------------------------------
(* Characters. *)

\* the characters \s and str.strip() treat as whitespace (the two the model uses)
Whitespace == {" ", "\t"}

Digits == {"0", "1", "2", "3", "4", "5", "6", "7", "8", "9"}

LowerLetters ==
    {"a", "b", "c", "d", "e", "f", "g", "h", "i", "j", "k", "l", "m",
     "n", "o", "p", "q", "r", "s", "t", "u", "v", "w", "x", "y", "z"}

\* str.lower() on the ASCII capitals
LowerOf ==
    ("A" :> "a") @@ ("B" :> "b") @@ ("C" :> "c") @@ ("D" :> "d") @@
    ("E" :> "e") @@ ("F" :> "f") @@ ("G" :> "g") @@ ("H" :> "h") @@
    ("I" :> "i") @@ ("J" :> "j") @@ ("K" :> "k") @@ ("L" :> "l") @@
    ("M" :> "m") @@ ("N" :> "n") @@ ("O" :> "o") @@ ("P" :> "p") @@
    ("Q" :> "q") @@ ("R" :> "r") @@ ("S" :> "s") @@ ("T" :> "t") @@
    ("U" :> "u") @@ ("V" :> "v") @@ ("W" :> "w") @@ ("X" :> "x") @@
    ("Y" :> "y") @@ ("Z" :> "z")

\* the characters \w matches: letters, digits and the underscore
WordChars == LowerLetters \cup DOMAIN LowerOf \cup Digits \cup {"_"}

\* the sentence-terminal punctuation of [.!?] and of endswith((".", "!", "?"))
Terminators == {".", "!", "?"}

IsSpace(c) == c \in Whitespace

\* str.lower()
lower(s) == [i \in 1..Len(s) |-> IF s[i] \in DOMAIN LowerOf THEN LowerOf[s[i]] ELSE s[i]]

\* `sub in s` on strings
Contains(s, sub) ==
    \E i \in 1..(Len(s) - Len(sub) + 1) : SubSeq(s, i, i + Len(sub) - 1) = sub

----------------------------------------------------------------------------
(* _split_sentences *)

RECURSIVE FirstNonSpace(_, _)
FirstNonSpace(s, i) ==
    IF i > Len(s) \/ ~IsSpace(s[i]) THEN i ELSE FirstNonSpace(s, i + 1)

RECURSIVE LastNonSpace(_, _)
LastNonSpace(s, i) ==
    IF i < 1 \/ ~IsSpace(s[i]) THEN i ELSE LastNonSpace(s, i - 1)

\* str.strip(): leading and trailing whitespace removed
strip(s) == SubSeq(s, FirstNonSpace(s, 1), LastNonSpace(s, Len(s)))

\* the pieces ps[lo..hi] concatenated in order
RECURSIVE Flatten(_, _, _)
Flatten(ps, lo, hi) ==
    IF lo > hi THEN <<>>
    ELSE IF lo = hi THEN ps[lo]
    ELSE LET mid == (lo + hi) \div 2
         IN  Flatten(ps, lo, mid) \o Flatten(ps, mid + 1, hi)

\* re.sub(r"\s+", " ", s): every maximal whitespace run becomes one space
sub_ws(s) ==
    Flatten([i \in 1..Len(s) |->
                IF ~IsSpace(s[i]) THEN <<s[i]>>
                ELSE IF i > 1 /\ IsSpace(s[i - 1]) THEN <<>>
                ELSE <<" ">>],
            1, Len(s))

\* " ".join(parts)
join(parts) ==
    Flatten([k \in 1..(2 * Len(parts) - 1) |->
                IF k % 2 = 1 THEN parts[(k + 1) \div 2] ELSE <<" ">>],
            1, 2 * Len(parts) - 1)

cleaned(t) == sub_ws(strip(t))

\* end of the whitespace run that starts at i (\s+ is greedy)
RECURSIVE RunEnd(_, _)
RunEnd(s, i) ==
    IF i + 1 <= Len(s) /\ IsSpace(s[i + 1]) THEN RunEnd(s, i + 1) ELSE i

\* where (?<=[.!?])\s+ matches: whitespace right after a terminator
MatchStarts(s) == {i \in 2..Len(s) : IsSpace(s[i]) /\ s[i - 1] \in Terminators}

\* re.split(r"[.!?]\s+", s): the lookbehind forgotten, so that the terminator
\* is part of the separator and is lost
RECURSIVE re_split_drop_terminator(_, _)
re_split_drop_terminator(s, from) ==
    LET ms == {i \in MatchStarts(s) : i - 1 >= from}
    IN  IF ms = {} THEN <<SubSeq(s, from, Len(s))>>
        ELSE LET i == CHOOSE k \in ms : \A m \in ms : k <= m
             IN  <<SubSeq(s, from, i - 2)>>
                 \o re_split_drop_terminator(s, RunEnd(s, i) + 1)

\* re.split(r"(?<=[.!?])\s+", s) from position `from` on: the pieces between
\* the matches, the terminator staying with the piece before the match
RECURSIVE re_split(_, _)
re_split(s, from) ==
    LET ms == {i \in MatchStarts(s) : i >= from}
    IN  IF ms = {} THEN <<SubSeq(s, from, Len(s))>>
        ELSE LET i == CHOOSE k \in ms : \A m \in ms : k <= m
             IN  <<SubSeq(s, from, i - 1)>> \o re_split(s, RunEnd(s, i) + 1)

\* [sentence.strip() for sentence in sentences if sentence.strip()]
RECURSIVE strip_nonempty(_)
strip_nonempty(ps) ==
    IF ps = <<>> THEN <<>>
    ELSE LET p == strip(Head(ps))
         IN  (IF p = <<>> THEN <<>> ELSE <<p>>) \o strip_nonempty(Tail(ps))

split_sentences(t) ==
    LET c == cleaned(t)
    IN  IF c = <<>> THEN <<>> ELSE strip_nonempty(re_split(c, 1))

----------------------------------------------------------------------------
(* The numeric token \b\d+%?\b and the other per-sentence tests. *)

\* \w at position i of s (no character outside the string)
IsWordAt(s, i) == i >= 1 /\ i <= Len(s) /\ s[i] \in WordChars

\* \b between positions p - 1 and p of s
WordBoundary(s, p) == IsWordAt(s, p - 1) # IsWordAt(s, p)

\* re.search(r"\d", s): a digit anywhere, word boundaries forgotten
has_digit(s) == \E i \in 1..Len(s) : s[i] \in Digits

\* re.search(r"\b\d+%?\b", s): digits s[i..j] after a word boundary, then an
\* optional %, then a word boundary
has_numeric_token(s) ==
    \E i \in 1..Len(s) :
        /\ s[i] \in Digits
        /\ WordBoundary(s, i)
        /\ \E j \in i..Len(s) :
              /\ \A k \in i..j : s[k] \in Digits
              /\ \/ WordBoundary(s, j + 1)
                 \/ /\ j + 1 <= Len(s)
                    /\ s[j + 1] = "%"
                    /\ WordBoundary(s, j + 2)

\* the tuple of line 49
AssertionTokens ==
    { <<" ", "w", "i", "l", "l", " ">>, <<" ", "h", "a", "s", " ">>,
      <<" ", "h", "a", "v", "e", " ">>, <<" ", "i", "s", " ">>,
      <<" ", "a", "r", "e", " ">>, <<" ", "w", "a", "s", " ">>,
      <<" ", "w", "e", "r", "e", " ">> }

\* the tokens written without the spaces around them
has_assertion_token_unspaced(low) ==
    \E tok \in AssertionTokens : Contains(low, SubSeq(tok, 2, Len(tok) - 1))

\* any(token in lower for token in (...)), on the lowered sentence
has_assertion_token(low) == \E tok \in AssertionTokens : Contains(low, tok)

\* "could" in sentence.lower() or "may" in sentence.lower()
has_hedge(s) ==
    \/ Contains(lower(s), <<"c", "o", "u", "l", "d">>)
    \/ Contains(lower(s), <<"m", "a", "y">>)

\* the tuple of line 104
VagueTokens ==
    { <<"s", "o", "m", "e">>, <<"m", "a", "n", "y">>,
      <<"v", "a", "r", "i", "o", "u", "s">>, <<"l", "i", "k", "e", "l", "y">>,
      <<"r", "e", "p", "o", "r", "t", "e", "d", "l", "y">> }

\* len(sentence.split()): the number of maximal runs of non-whitespace
word_count(s) ==
    Cardinality({i \in 1..Len(s) : ~IsSpace(s[i]) /\ (i = 1 \/ IsSpace(s[i - 1]))})

\* lst[:n]
Truncate(lst, n) == SubSeq(lst, 1, IF Len(lst) < n THEN Len(lst) ELSE n)

----------------------------------------------------------------------------
(* _select_claims *)

\* the claim cap of line 53
MaxClaims == 5

\* the loop with the cap tested as len(claims) > 5
RECURSIVE select_loop_late_break(_, _, _)
select_loop_late_break(ss, i, acc) ==
    IF i > Len(ss) THEN [claims |-> acc, examined |-> Len(ss)]
    ELSE LET sentence == ss[i]
             acc2 == IF has_assertion_token(lower(sentence)) THEN Append(acc, sentence)
                     ELSE IF has_numeric_token(sentence) THEN Append(acc, sentence)
                     ELSE acc
         IN  IF Len(acc2) > MaxClaims THEN [claims |-> acc2, examined |-> i]
             ELSE select_loop_late_break(ss, i + 1, acc2)

\* the loop of lines 47-54 from sentence i on, acc being the claims so far;
\* examined is the number of sentences the loop has looked at when it ends
RECURSIVE select_loop(_, _, _)
select_loop(ss, i, acc) ==
    IF i > Len(ss) THEN [claims |-> acc, examined |-> Len(ss)]
    ELSE LET sentence == ss[i]
             acc2 == IF has_assertion_token(lower(sentence)) THEN Append(acc, sentence)
                     ELSE IF has_numeric_token(sentence) THEN Append(acc, sentence)
                     ELSE acc
         IN  IF Len(acc2) >= MaxClaims THEN [claims |-> acc2, examined |-> i]
             ELSE select_loop(ss, i + 1, acc2)

select_claims(ss) == select_loop(ss, 1, <<>>).claims

----------------------------------------------------------------------------
(* _build_headline *)

NoTopic ==
    <<"N", "o", " ", "t", "o", "p", "i", "c", " ", "d", "e", "t", "e", "c",
      "t", "e", "d", " ", "f", "r", "o", "m", " ", "t", "h", "e", " ", "p",
      "r", "o", "v", "i", "d", "e", "d", " ", "t", "e", "x", "t", ".">>

\* first_sentence.endswith((".", "!", "?"))
EndsWithTerminator(s) == s # <<>> /\ s[Len(s)] \in Terminators

\* endswith(".") alone
build_headline_period_only(ss) ==
    IF ss = <<>> THEN NoTopic
    ELSE LET first_sentence == ss[1]
         IN  IF first_sentence # <<>> /\ first_sentence[Len(first_sentence)] = "."
             THEN first_sentence
             ELSE Append(first_sentence, ".")

build_headline(ss) ==
    IF ss = <<>> THEN NoTopic
    ELSE LET first_sentence == ss[1]
         IN  IF EndsWithTerminator(first_sentence) THEN first_sentence
             ELSE Append(first_sentence, ".")

----------------------------------------------------------------------------
(* _confidence_note *)

NoSourceNote == "No source text was provided, so reliability cannot be assessed."

ModerateNote ==
    "The text is relatively clear and includes multiple concrete details, so the claims appear moderately reliable pending verification."

UncertainNote ==
    "The text offers broad statements with few specifics, so reliability is uncertain and would benefit from corroborating sources."

\* the f-string of lines 81-82
PartialNote(clarity) ==
    "The text has " \o clarity \o " structure with some factual indicators, suggesting partial reliability that should be checked against primary sources."

\* the sentence count up to which the structure is "clear" (line 69)
ClearMax == 6

\* the thresholds of line 70
DetailMin == 2

ClaimsMin == 3

\* sum(1 for sentence in sentences if re.search(...))
detail_score(ss) == Cardinality({i \in 1..Len(ss) : has_numeric_token(ss[i])})

\* the clarity test written len(sentences) < 6
confidence_note_strict_clear(ss, cl) ==
    IF ss = <<>> THEN NoSourceNote
    ELSE LET clarity == IF Len(ss) < ClearMax THEN "clear" ELSE "mixed"
         IN  IF detail_score(ss) >= DetailMin /\ Len(cl) >= ClaimsMin THEN ModerateNote
             ELSE IF detail_score(ss) = 0 THEN UncertainNote
             ELSE PartialNote(clarity)

confidence_note(ss, cl) ==
    IF ss = <<>> THEN NoSourceNote
    ELSE LET clarity == IF Len(ss) <= ClearMax THEN "clear" ELSE "mixed"
         IN  IF detail_score(ss) >= DetailMin /\ Len(cl) >= ClaimsMin THEN ModerateNote
             ELSE IF detail_score(ss) = 0 THEN UncertainNote
             ELSE PartialNote(clarity)

----------------------------------------------------------------------------
(* _watch_items *)

ClarifyItem == "Clarify the main topic and provide supporting facts."

VerifyItem == "Verify conditional statements against confirmed reports."

ConfirmItem == "Confirm the quantitative figures with original data."

SourcesItem == "Identify the primary sources behind the reported claims."

\* the length of watchlist[:3]
MaxWatch == 3

\* the list of lines 89-94, before it is cut
watchlist(ss) ==
    (IF \E i \in 1..Len(ss) : has_hedge(ss[i]) THEN <<VerifyItem>> ELSE <<>>)
    \o (IF \E i \in 1..Len(ss) : has_numeric_token(ss[i]) THEN <<ConfirmItem>> ELSE <<>>)
    \o <<SourcesItem>>

\* the two conditional items appended in the other order
watch_items_swapped(ss) ==
    IF ss = <<>> THEN <<ClarifyItem>>
    ELSE Truncate(
            (IF \E i \in 1..Len(ss) : has_numeric_token(ss[i]) THEN <<ConfirmItem>> ELSE <<>>)
            \o (IF \E i \in 1..Len(ss) : has_hedge(ss[i]) THEN <<VerifyItem>> ELSE <<>>)
            \o <<SourcesItem>>,
            MaxWatch)

\* the list cut to two items
watch_items_cut_two(ss) ==
    IF ss = <<>> THEN <<ClarifyItem>> ELSE Truncate(watchlist(ss), MaxWatch - 1)

\* the numeric item decided by a bare digit search
watch_items_any_digit(ss) ==
    IF ss = <<>> THEN <<ClarifyItem>>
    ELSE Truncate(
            (IF \E i \in 1..Len(ss) : has_hedge(ss[i]) THEN <<VerifyItem>> ELSE <<>>)
            \o (IF \E i \in 1..Len(ss) : has_digit(ss[i]) THEN <<ConfirmItem>> ELSE <<>>)
            \o <<SourcesItem>>,
            MaxWatch)

watch_items_of(ss) ==
    IF ss = <<>> THEN <<ClarifyItem>> ELSE Truncate(watchlist(ss), MaxWatch)

----------------------------------------------------------------------------
(* _uncertainty_flags *)

NoInputFlag == "No input text provided to evaluate."

ShortFlag == "Some sentences are very short, which may omit important context."

VagueFlag == "Vague qualifiers suggest potential uncertainty or bias."

NoNumericFlag == "No numeric data was provided to anchor the claims."

\* the word count below which a sentence is very short (line 102)
ShortWords == 6

\* the length of flags[:3]
MaxFlags == 3

\* the short-sentence test written len(sentence.split()) <= 6
uncertainty_flags_short_le(ss) ==
    IF ss = <<>> THEN <<NoInputFlag>>
    ELSE Truncate(
            (IF \E i \in 1..Len(ss) : word_count(ss[i]) <= ShortWords
             THEN <<ShortFlag>> ELSE <<>>)
            \o (IF \E tok \in VagueTokens : Contains(lower(join(ss)), tok)
                THEN <<VagueFlag>> ELSE <<>>)
            \o (IF ~ \E i \in 1..Len(ss) : has_numeric_token(ss[i])
                THEN <<NoNumericFlag>> ELSE <<>>),
            MaxFlags)

uncertainty_flags(ss) ==
    IF ss = <<>> THEN <<NoInputFlag>>
    ELSE Truncate(
            (IF \E i \in 1..Len(ss) : word_count(ss[i]) < ShortWords
             THEN <<ShortFlag>> ELSE <<>>)
            \o (IF \E tok \in VagueTokens : Contains(lower(join(ss)), tok)
                THEN <<VagueFlag>> ELSE <<>>)
            \o (IF ~ \E i \in 1..Len(ss) : has_numeric_token(ss[i])
                THEN <<NoNumericFlag>> ELSE <<>>),
            MaxFlags)

----------------------------------------------------------------------------
(* Inputs. *)

\* the characters of the character-by-character texts
Alphabet == {"a", "1", "%", ".", "!", "?", " ", "\t"}

\* "We saw 20% of them go.", "Some May HAVE it.", "Is Q3 as it is?"
Pool ==
    { <<"W", "e", " ", "s", "a", "w", " ", "2", "0", "%", " ", "o", "f", " ",
        "t", "h", "e", "m", " ", "g", "o", ".">>,
      <<"S", "o", "m", "e", " ", "M", "a", "y", " ", "H", "A", "V", "E", " ",
        "i", "t", ".">>,
      <<"I", "s", " ", "Q", "3", " ", "a", "s", " ", "i", "t", " ", "i", "s", "?">> }

SentenceLists == UNION {[1..n -> Pool] : n \in 0..MaxSentences}

CharTexts == UNION {[1..n -> Alphabet] : n \in 0..MaxTextLen}

\* the texts made of Pool sentences with one space between them
PoolTexts == {join(ss) : ss \in UNION {[1..n -> Pool] : n \in 0..MaxTextSentences}}

Texts == CharTexts \cup PoolTexts

----------------------------------------------------------------------------
Init ==
    /\ text \in Texts
    /\ sentences = <<>>
    /\ claims = <<>>
    /\ examined = 0
    /\ headline = <<>>
    /\ confidence = ""
    /\ watch_items = <<>>
    /\ flags = <<>>
    /\ pc = "start"

\* analyze(text), lines 126-131; the printed report renders these five
\* results and keeps nothing
analyze ==
    /\ pc = "start"
    /\ sentences' = split_sentences(text)
    /\ LET sel == select_loop(sentences', 1, <<>>)
       IN  claims' = sel.claims /\ examined' = sel.examined
    /\ headline' = build_headline(sentences')
    /\ confidence' = confidence_note(sentences', claims')
    /\ watch_items' = watch_items_of(sentences')
    /\ flags' = uncertainty_flags(sentences')
    /\ pc' = "done"
    /\ UNCHANGED text

Next == analyze

Spec == Init /\ [][Next]_vars

----------------------------------------------------------------------------
(* The functions applied one at a time to a sentence list. *)

\* the claim lists _confidence_note is tried with
ClaimArgs(ss) == {<<>>, select_claims(ss), ss}

InitFn ==
    /\ text = <<>>
    /\ sentences \in SentenceLists
    /\ claims = <<>>
    /\ examined = 0
    /\ headline = <<>>
    /\ confidence = ""
    /\ watch_items = <<>>
    /\ flags = <<>>
    /\ pc = "start"

call_select_claims ==
    /\ pc = "start"
    /\ LET sel == select_loop(sentences, 1, <<>>)
       IN  claims' = sel.claims /\ examined' = sel.examined
    /\ pc' = "select_claims"
    /\ UNCHANGED <<text, sentences, headline, confidence, watch_items, flags>>

call_build_headline ==
    /\ pc = "start"
    /\ headline' = build_headline(sentences)
    /\ pc' = "build_headline"
    /\ UNCHANGED <<text, sentences, claims, examined, confidence, watch_items, flags>>

call_confidence_note ==
    /\ pc = "start"
    /\ \E cl \in ClaimArgs(sentences) :
          /\ claims' = cl
          /\ confidence' = confidence_note(sentences, cl)
    /\ pc' = "confidence_note"
    /\ UNCHANGED <<text, sentences, examined, headline, watch_items, flags>>

call_watch_items ==
    /\ pc = "start"
    /\ watch_items' = watch_items_of(sentences)
    /\ pc' = "watch_items"
    /\ UNCHANGED <<text, sentences, claims, examined, headline, confidence, flags>>

call_uncertainty_flags ==
    /\ pc = "start"
    /\ flags' = uncertainty_flags(sentences)
    /\ pc' = "uncertainty_flags"
    /\ UNCHANGED <<text, sentences, claims, examined, headline, confidence, watch_items>>

NextFn ==
    \/ call_select_claims
    \/ call_build_headline
    \/ call_confidence_note
    \/ call_watch_items
    \/ call_uncertainty_flags

SpecFn == InitFn /\ [][NextFn]_vars

----------------------------------------------------------------------------
(* Properties. *)

InSeq(x, seq) == \E i \in 1..Len(seq) : seq[i] = x

AnyNumeric(ss) == \E i \in 1..Len(ss) : has_numeric_token(ss[i])

AnyHedge(ss) == \E i \in 1..Len(ss) : has_hedge(ss[i])

\* C1: after analyze, for every text, the watch items and the uncertainty
\* flags are both non-empty and both hold at most 3 items.
C1_NonEmptyCapped ==
    pc = "done" =>
        /\ Len(watch_items) >= 1 /\ Len(watch_items) <= 3
        /\ Len(flags) >= 1 /\ Len(flags) <= 3

\* the whitespace-normalized form of s, position by position: a character
\* that is not whitespace stays; a whitespace character becomes one space
\* when it opens a run that has text before it and text after it, and
\* disappears otherwise
WsNormal(s) ==
    Flatten([i \in 1..Len(s) |->
                IF ~IsSpace(s[i]) THEN <<s[i]>>
                ELSE IF /\ i > 1
                        /\ ~IsSpace(s[i - 1])
                        /\ \E k \in (i + 1)..Len(s) : ~IsSpace(s[k])
                     THEN <<" ">>
                     ELSE <<>>],
            1, Len(s))

\* C2: the sentences of a text joined with single spaces are the
\* whitespace-normalized text; no sentence is empty, and a text that is
\* empty or all whitespace has no sentences.
C2_SplitJoinLossless ==
    pc = "done" =>
        /\ join(sentences) = WsNormal(text)
        /\ \A i \in 1..Len(sentences) : sentences[i] # <<>>
        /\ (\A i \in 1..Len(text) : IsSpace(text[i])) => sentences = <<>>

\* a text of two sentences that lost whitespace in the split
C2_Witness ==
    /\ pc = "done"
    /\ Len(sentences) = 2
    /\ Len(join(sentences)) < Len(text)

\* a is b with some elements left out, the order kept
RECURSIVE Embeds(_, _, _, _)
Embeds(a, i, b, j) ==
    IF i > Len(a) THEN TRUE
    ELSE IF j > Len(b) THEN FALSE
    ELSE IF a[i] = b[j] THEN Embeds(a, i + 1, b, j + 1)
    ELSE Embeds(a, i, b, j + 1)

\* C3: _select_claims returns at most 5 items, and they are a subsequence
\* of the sentence list: verbatim, in order, duplicates kept.
C3_AtMostFiveSubsequence ==
    pc = "select_claims" =>
        /\ Len(claims) <= 5
        /\ Embeds(claims, 1, sentences, 1)

\* the cap is reached with a sentence selected twice and a sentence skipped
C3_Witness ==
    /\ pc = "select_claims"
    /\ Len(claims) = 5
    /\ Len(sentences) > 5
    /\ \E i, j \in 1..Len(claims) : i < j /\ claims[i] = claims[j]
    /\ claims # SubSeq(sentences, 1, 5)

\* C4: the headline is the fixed text when there is no sentence; otherwise
\* the first sentence, unchanged when it ends in '.', '!' or '?' and with
\* one '.' appended when it does not; so it is never empty and always ends
\* in '.', '!' or '?'.
C4_Headline ==
    pc = "done" =>
        /\ sentences = <<>> => headline = NoTopic
        /\ sentences # <<>> =>
              LET first == sentences[1]
                  ends  == first # <<>> /\ first[Len(first)] \in {".", "!", "?"}
              IN  /\ ends => headline = first
                  /\ ~ends => headline = first \o <<".">>
        /\ headline # <<>>
        /\ headline[Len(headline)] \in {".", "!", "?"}

\* a first sentence ending in '?' or '!' is kept as it is, beside a second one
C4_Witness ==
    /\ pc = "done"
    /\ Len(sentences) = 2
    /\ sentences[1][Len(sentences[1])] \in {"!", "?"}
    /\ headline = sentences[1]

\* C5: _confidence_note returns the 'no source text' message iff there is
\* no sentence; else the 'moderately reliable' message iff detailScore >= 2
\* and there are at least 3 claims; else the 'reliability is uncertain'
\* message iff detailScore = 0; else the 'partial reliability' message, with
\* "clear" for at most 6 sentences and "mixed" for more.
C5_ConfidencePrecedence ==
    pc = "confidence_note" =>
        LET n == Len(sentences)
            d == Cardinality({i \in 1..n : has_numeric_token(sentences[i])})
            c == Len(claims)
            moderate == n > 0 /\ d >= 2 /\ c >= 3
            uncertain == n > 0 /\ ~moderate /\ d = 0
            partial == n > 0 /\ ~moderate /\ d # 0
        IN  /\ confidence = NoSourceNote <=> n = 0
            /\ confidence = ModerateNote <=> moderate
            /\ confidence = UncertainNote <=> uncertain
            /\ confidence = "The text has clear structure with some factual indicators, suggesting partial reliability that should be checked against primary sources."
                  <=> (partial /\ n <= 6)
            /\ confidence = "The text has mixed structure with some factual indicators, suggesting partial reliability that should be checked against primary sources."
                  <=> (partial /\ n > 6)

\* more than 6 sentences, two of them numeric, fewer than 3 claims: "mixed"
C5_Witness ==
    /\ pc = "confidence_note"
    /\ Len(sentences) > 6
    /\ Cardinality({i \in 1..Len(sentences) : has_numeric_token(sentences[i])}) >= 2
    /\ Len(claims) < 3
    /\ confidence = PartialNote("mixed")

\* C6: for a non-empty sentence list _watch_items returns the hedging item
\* iff some sentence contains "could" or "may", then the numeric item iff
\* some sentence has a numeric token, then the primary-sources item; for
\* the empty list it returns the one fallback item.
C6_WatchItems ==
    pc = "watch_items" =>
        IF sentences = <<>>
        THEN watch_items = <<"Clarify the main topic and provide supporting facts.">>
        ELSE watch_items =
                (IF AnyHedge(sentences) THEN <<VerifyItem>> ELSE <<>>)
                \o (IF AnyNumeric(sentences) THEN <<ConfirmItem>> ELSE <<>>)
                \o <<SourcesItem>>

\* a hedged text without a number: the hedging item, then the sources item
C6_Witness ==
    /\ pc = "watch_items"
    /\ AnyHedge(sentences)
    /\ ~AnyNumeric(sentences)
    /\ watch_items = <<VerifyItem, SourcesItem>>

\* C7 as stated: when both conditional items fired, cutting the list to 3
\* drops the primary-sources item from the returned list.
C7_GenericDropped ==
    (pc = "watch_items" /\ AnyHedge(sentences) /\ AnyNumeric(sentences))
        => ~InSeq(SourcesItem, watch_items)

\* C7 amended: the list never holds more than 3 items before it is cut, so
\* the cut drops nothing: the returned list has one item per condition that
\* fired plus the primary-sources item, which is always its last item.
C7_NothingDropped ==
    (pc = "watch_items" /\ sentences # <<>>) =>
        /\ Len(watch_items) = (IF AnyHedge(sentences) THEN 1 ELSE 0)
                              + (IF AnyNumeric(sentences) THEN 1 ELSE 0) + 1
        /\ watch_items[Len(watch_items)] = SourcesItem

\* both conditional items fired and the sources item is still there
C7_Witness ==
    /\ pc = "watch_items"
    /\ AnyHedge(sentences)
    /\ AnyNumeric(sentences)
    /\ watch_items = <<VerifyItem, ConfirmItem, SourcesItem>>

\* the assertion words of the claim selector
AssertionWords ==
    { <<"w", "i", "l", "l">>, <<"h", "a", "s">>, <<"h", "a", "v", "e">>,
      <<"i", "s">>, <<"a", "r", "e">>, <<"w", "a", "s">>, <<"w", "e", "r", "e">> }

\* w stands in s, in any case, with a space before it and a space after it
SpaceDelimited(s, w) ==
    \E i \in 2..(Len(s) - Len(w)) :
        /\ s[i - 1] = " "
        /\ lower(SubSeq(s, i, i + Len(w) - 1)) = w
        /\ s[i + Len(w)] = " "

Qualifies(s) == (\E w \in AssertionWords : SpaceDelimited(s, w)) \/ has_numeric_token(s)

\* the qualifying sentences of ss, in order
RECURSIVE QualifyingOf(_)
QualifyingOf(ss) ==
    IF ss = <<>> THEN <<>>
    ELSE (IF Qualifies(Head(ss)) THEN <<Head(ss)>> ELSE <<>>) \o QualifyingOf(Tail(ss))

\* C8: _select_claims returns the first min(5, k) qualifying sentences in
\* encounter order, k being the number of qualifying sentences; a sentence
\* qualifies iff it holds an assertion word between spaces (any case) or a
\* numeric token; the loop looks at no sentence after the fifth claim, and
\* the result is empty when nothing qualifies.
C8_FirstFiveQualifying ==
    pc = "select_claims" =>
        LET q == QualifyingOf(sentences)
            k == Len(q)
        IN  /\ claims = SubSeq(q, 1, IF k < 5 THEN k ELSE 5)
            /\ k >= 5 =>
                  /\ Qualifies(sentences[examined])
                  /\ Len(QualifyingOf(SubSeq(sentences, 1, examined))) = 5
            /\ k < 5 => examined = Len(sentences)
            /\ k = 0 => claims = <<>>

\* more than 5 sentences qualify, one that does not stands among the first
\* five that do, and the loop stops before the end of the list
C8_Witness ==
    /\ pc = "select_claims"
    /\ Len(QualifyingOf(sentences)) > 5
    /\ examined < Len(sentences)
    /\ \E i \in 1..examined : ~Qualifies(sentences[i])
    /\ Len(claims) = 5

\* C9: for a non-empty sentence list _uncertainty_flags returns, in order,
\* the short-sentences flag iff some sentence has fewer than 6 words, the
\* vague-qualifiers flag iff the lowered join of the sentences contains a
\* vague token as a substring, and the no-numeric flag iff no sentence has
\* a numeric token; cutting to 3 removes nothing.
C9_UncertaintyFlags ==
    (pc = "uncertainty_flags" /\ sentences # <<>>) =>
        flags =
            (IF \E i \in 1..Len(sentences) : word_count(sentences[i]) < 6
             THEN <<ShortFlag>> ELSE <<>>)
            \o (IF \E tok \in VagueTokens : Contains(lower(join(sentences)), tok)
                THEN <<VagueFlag>> ELSE <<>>)
            \o (IF ~AnyNumeric(sentences) THEN <<NoNumericFlag>> ELSE <<>>)

\* all three flags at once
C9_Witness ==
    /\ pc = "uncertainty_flags"
    /\ flags = <<ShortFlag, VagueFlag, NoNumericFlag>>

\* C10: in a brief for a text with at least one sentence, the no-numeric
\* flag is present iff the numeric watch item is absent, and iff the
\* confidence note is the 'reliability is uncertain' message.
C10_NumericOutputsAgree ==
    (pc = "done" /\ sentences # <<>>) =>
        /\ InSeq(NoNumericFlag, flags) <=> ~InSeq(ConfirmItem, watch_items)
        /\ InSeq(NoNumericFlag, flags) <=> confidence = UncertainNote
        /\ ~(InSeq(ConfirmItem, watch_items) /\ InSeq(NoNumericFlag, flags))

\* a brief with the numeric watch item, the moderate note and no such flag
C10_Witness ==
    /\ pc = "done"
    /\ InSeq(ConfirmItem, watch_items)
    /\ confidence = ModerateNote
    /\ ~InSeq(NoNumericFlag, flags)

====
